---- MODULE Spec2Model ----
(***************************************************************************)
(* Order Execution Engine of midastrader: the worker loop of               *)
(* OrderExecutionManager (process / handle_event / _handle_signal /        *)
(* _set_order), run against the shared Order Book and Portfolio State and  *)
(* the signal queue the strategy publishes to.                             *)
(***************************************************************************)
EXTENDS Integers, Sequences, FiniteSets, TLC

\* ------------------------------------------------------------------ bounds
MaxSignals == 2
MaxLegs == 2
MaxCapital == 2
MaxItems == 1
MaxPayloads == 3

\* ------------------------------------------------------------- value sets
\* Instruments a signal may name; only those of KnownSymbols are keys of
\* symbols_map.map.
Instruments == {"A", "B", "Z"}
KnownSymbols == {"A", "B"}
Actions == {"LONG", "SHORT", "BUY", "SELL", "COVER"}
Quantities == {1}
Prices == {1}
\* Multi-leg signals name known symbols and mix an opening and an exit action.
PairActions == {"BUY", "SELL"}
\* Later signals of a run are drawn from a smaller alphabet than the first.
FollowUpInstruments == {"A"}
FollowUpActions == {"LONG"}
Capitals == (0 - 1)..MaxCapital
NoPrice == 0
NoEvent == [kind |-> "none"]
BadPayload == [kind |-> "other"]

VARIABLES
    signal_queue,            \* self.signal_queue (bus.subscribe(SIGNAL))
    shutdown_event,          \* self.shutdown_event
    running,                 \* self.running
    pc,                      \* position of the process worker
    event,                   \* process: the item dequeued last
    active_orders_tickers,   \* handle_event: active_orders_tickers
    orders,                  \* _handle_signal: orders
    total_capital_required,  \* _handle_signal: total_capital_required
    leg,                     \* index of the loop at line 140 / line 163
    lookups,                 \* the results of order_book.retrieve for event, in order
    capital_read,            \* <<capital>> as read at line 162 for event, else <<>>
    bus_log,                 \* the bus.publish calls made for event, in order
    error,                   \* the exception that ended the worker, if any
    cleanups,                \* number of cleanup() calls
    handled,                 \* number of items dequeued so far
    published,               \* number of items put on the SIGNAL queue so far
    order_book,              \* OrderBook: instrument -> price (NoPrice: never priced)
    capital,                 \* portfolio_server.capital
    active_orders,           \* instruments of portfolio_server's active orders
    \* the execution side, downstream of EventType.ORDER
    broker_subscribed,       \* a broker has subscribed to EventType.ORDER
    outstanding,             \* ORDER payloads published and not yet terminal
    overlap,                 \* a signal was admitted while an order was outstanding
    \* CoreEngine and the adapters it runs
    ad_pc,                   \* position of each lifecycle adapter's process
    ad_running,              \* adapter.running of the adapters other than order_manager
    ad_shutdown,             \* adapter.shutdown_event of those adapters
    pm_pc,                   \* position of PerformanceManager.process
    sub_pc,                  \* positions of its four queue-consuming threads
    pm_queue,                \* items waiting in its four queues
    pm_published,            \* items put on those queues so far
    saves,                   \* number of PerformanceManager.save() calls
    pm_cleanups,             \* number of PerformanceManager.cleanup() calls
    start_pc,                \* position of CoreEngine.start
    start_k,                 \* index of start's loop over self.adapters
    engine_running,          \* CoreEngine.running
    monitor_pc,              \* position of CoreEngine._monitor_threads
    monitor_k,               \* index of its loop over self.threads
    completed,               \* CoreEngine.completed ("undefined": no such attribute)
    stop_pc,                 \* position of CoreEngine.stop
    stop_log,                \* what stop() has done so far, in order
    wait_pc,                 \* position of CoreEngine.wait_until_complete
    \* the message bus, for one event kind
    bus_published,           \* the payloads published so far, in order
    bus_joined,              \* per subscriber: payloads published before it subscribed
    bus_queues,              \* per subscriber: its queue
    bus_consumed,            \* per subscriber: the payloads it has dequeued, in order
    \* the data classes
    struct_in,               \* the constructor or comparison called, with its arguments
    struct_out,              \* its outcome
    \* Engine (main_engine.py)
    mode,                    \* self.mode
    main_pc,                 \* position of Engine.start
    main_running,            \* self.running ("undefined": not yet assigned)
    main_log                 \* the calls Engine.start has made and what came back, in order


workerVars == <<running, pc, event, active_orders_tickers, orders,
                total_capital_required, leg, lookups, capital_read, bus_log, error,
                cleanups, handled>>
sharedVars == <<order_book, capital, active_orders>>
brokerVars == <<broker_subscribed, outstanding, overlap>>
engineVars == <<ad_pc, ad_running, ad_shutdown, pm_pc, sub_pc, pm_queue,
                pm_published, saves, pm_cleanups, start_pc, start_k,
                engine_running, monitor_pc, monitor_k, completed, stop_pc,
                stop_log, wait_pc>>
busVars == <<bus_published, bus_joined, bus_queues, bus_consumed>>
structVars == <<struct_in, struct_out>>
libVars == <<busVars, structVars>>
mainVars == <<mode, main_pc, main_running, main_log>>
coreVars == <<signal_queue, shutdown_event, published, workerVars, sharedVars,
              brokerVars, engineVars>>

vars == <<signal_queue, shutdown_event, running, pc, event, active_orders_tickers,
          orders, total_capital_required, leg, lookups, capital_read, bus_log,
          error, cleanups, handled, published, order_book, capital, active_orders,
          brokerVars, engineVars, libVars, mainVars>>

\* ------------------------------------------------------ pure definitions
\* SignalInstruction: one leg of a signal.
SignalInstruction(instrument, action, trade_id, leg_id, quantity) ==
    [instrument |-> instrument, action |-> action, trade_id |-> trade_id,
     leg_id |-> leg_id, quantity |-> quantity]

\* SignalEvent(timestamp, instructions).
SignalEvent(timestamp, instructions) ==
    [kind |-> "SignalEvent", timestamp |-> timestamp, instructions |-> instructions]

\* The signals of lens legs over the given instruments and actions. The n-th
\* item on the queue, when a signal, carries timestamp 100 + n and trade id
\* 10 + n; its legs are numbered 1..Len in order.
SignalsOver(n, lens, instruments, actions) ==
    UNION { { SignalEvent(100 + n,
                  [j \in 1..len |->
                      SignalInstruction(f[j][1], f[j][2], 10 + n, j, f[j][3])]) :
                f \in [1..len -> instruments \X actions \X Quantities] } :
            len \in lens }

\* Signals of more than two legs name the follow-up instruments only.
Signals(n) ==
    IF n = 1 THEN SignalsOver(n, {1}, Instruments, Actions)
                  \cup SignalsOver(n, (2..MaxLegs) \cap {2}, KnownSymbols, PairActions)
                  \cup SignalsOver(n, 3..MaxLegs, FollowUpInstruments, PairActions)
    ELSE SignalsOver(n, {1}, FollowUpInstruments, FollowUpActions)

\* bus.publish(EventType.UPDATE_SYSTEM, False)
RejectMsg == [kind |-> "UPDATE_SYSTEM", payload |-> FALSE]
\* bus.publish(EventType.ORDER, order_event)
OrderMsg(o) == [kind |-> "ORDER", payload |-> o]

\* handle_event, lines 104-107: any(trade.instrument in active_orders_tickers ...)
HasConflictFirstLeg(instructions, tickers) ==
    instructions[1].instrument \in tickers
HasConflict(instructions, tickers) ==
    \E j \in 1..Len(instructions) : instructions[j].instrument \in tickers

\* _handle_signal, line 159: SELL / COVER are exits.
IsExitSellOnly(action) == action \in {"SELL"}
IsExit(action) == action \in {"SELL", "COVER"}

\* OrderBook.retrieve(instrument_id): the last price, NoPrice when the
\* instrument was never priced (the lookup then fails with NotFound).
Retrieve(book, instrument) == book[instrument]

\* symbol.cost(order.quantity, current_price): quantity x price x multiplier.
Multiplier(instrument) == IF instrument = "B" THEN 2 ELSE 1
SymbolCost(instrument, quantity, price) == quantity * price * Multiplier(instrument)

\* _handle_signal, lines 147-154: order_details.
OrderDetails(timestamp, trade) ==
    [timestamp |-> timestamp, trade_id |-> trade.trade_id, leg_id |-> trade.leg_id,
     action |-> trade.action, contract |-> trade.instrument,
     quantity |-> trade.quantity]

\* bus.publish(EventType.ORDER, order_event), line 208: the event reaches
\* the subscribers of the topic; with none it is delivered to nobody.
Delivered(queue, o, subscribed) == IF subscribed THEN Append(queue, o) ELSE queue

\* _handle_signal, lines 159-160.
AddCostNothing(total, action, order_cost) == total
AddCost(total, action, order_cost) ==
    IF ~IsExit(action) THEN total + order_cost ELSE total

\* _handle_signal, line 162.
AdmitsReversed(total, cap) == total >= cap
AdmitsStrict(total, cap) == total < cap
Admits(total, cap) == total <= cap

\* _handle_signal, line 163: for order in orders (the k-th iteration).
NextOrderReversed(os, k) == os[Len(os) + 1 - k]
NextOrder(os, k) == os[k]

\* process, lines 64-69: only queue.Empty is caught; any other exception
\* raised under handle_event leaves the while loop and ends the worker
\* before line 71.
AfterRaise(exc) == IF exc = "Empty" THEN "loop" ELSE "crashed"

\* ------------------------------------------------------------------ Init
\* The adapters CoreEngine.initialize and set_strategy register, in the
\* order of the self.adapters dictionary.
AdapterOrder == <<"order_book", "portfolio_server", "order_manager",
                  "performance_manager", "strategy">>
Adapters == {AdapterOrder[k] : k \in 1..Len(AdapterOrder)}
\* Adapters whose process is known by the lifecycle contract only.
LifecycleAdapters == {"order_book", "portfolio_server", "strategy"}
\* PerformanceManager.process: account, trades, equity, signal.
SubLoops == 1..4

\* The bus kind followed on its own is not used, no data class is constructed.
BusIdle ==
    /\ bus_published = <<>>
    /\ bus_joined = <<>>
    /\ bus_queues = <<>>
    /\ bus_consumed = <<>>

LibraryIdle ==
    /\ BusIdle
    /\ struct_in = [call |-> "none"]
    /\ struct_out = "pending"

\* No subscriber of EventType.ORDER is part of the run.
BrokerDetached ==
    /\ broker_subscribed = FALSE
    /\ outstanding = <<>>
    /\ overlap = FALSE

\* CoreEngine after __init__, initialize and set_strategy; no method called.
EngineConstructed ==
    /\ ad_pc = [a \in LifecycleAdapters |-> "idle"]
    /\ ad_running = [a \in Adapters \ {"order_manager"} |-> FALSE]
    /\ ad_shutdown = [a \in Adapters \ {"order_manager"} |-> FALSE]
    /\ pm_pc = "idle"
    /\ sub_pc = [i \in SubLoops |-> "idle"]
    /\ pm_queue = [i \in SubLoops |-> 0]
    /\ pm_published = 0
    /\ saves = 0
    /\ pm_cleanups = 0
    /\ start_k = 1
    /\ engine_running = FALSE
    /\ monitor_pc = "idle"
    /\ monitor_k = 1
    /\ completed = "undefined"
    /\ stop_log = <<>>
    /\ wait_pc = "idle"

\* The order manager's worker taken on its own: CoreEngine is not stepped.
\* Engine of main_engine.py after __init__; start is not called.
MainConstructed(m) ==
    /\ mode = m
    /\ main_pc = "idle"
    /\ main_running = "undefined"
    /\ main_log = <<>>

EngineDetached ==
    /\ EngineConstructed
    /\ stop_pc = "idle"
    /\ MainConstructed("BACKTEST")
    /\ start_pc = "detached"

OrderManagerConstructed ==
    /\ signal_queue = <<>>
    /\ shutdown_event = FALSE
    /\ running = FALSE
    /\ pc = "start"
    /\ event = NoEvent
    /\ active_orders_tickers = {}
    /\ orders = <<>>
    /\ total_capital_required = 0
    /\ leg = 0
    /\ lookups = <<>>
    /\ capital_read = <<>>
    /\ bus_log = <<>>
    /\ error = "none"
    /\ cleanups = 0
    /\ handled = 0
    /\ published = 0
    /\ order_book = [s \in KnownSymbols |-> NoPrice]
    /\ capital = MaxCapital
    /\ active_orders = {}
    /\ BrokerDetached
    /\ EngineDetached

Init ==
    /\ OrderManagerConstructed
    /\ LibraryIdle

\* ------------------------------------------------- the process worker
\* process, lines 60-61.
Start ==
    /\ pc = "start"
    /\ running' = TRUE
    /\ pc' = "loop"
    /\ UNCHANGED <<signal_queue, shutdown_event, event, active_orders_tickers,
                   orders, total_capital_required, leg, lookups, capital_read,
                   bus_log, error, cleanups, handled, published, sharedVars>>
    /\ UNCHANGED <<brokerVars, engineVars, libVars, mainVars>>

\* A loop that drains its queue before it looks at shutdown_event.
LoopCheckDrains ==
    /\ pc = "loop"
    /\ pc' = IF shutdown_event /\ signal_queue = <<>> THEN "cleanup" ELSE "get"
    /\ UNCHANGED <<signal_queue, shutdown_event, running, event,
                   active_orders_tickers, orders, total_capital_required, leg,
                   lookups, capital_read, bus_log, error, cleanups, handled,
                   published, sharedVars>>
    /\ UNCHANGED <<brokerVars, engineVars, libVars, mainVars>>

\* process, line 63: while not self.shutdown_event.is_set()
LoopCheck ==
    /\ pc = "loop"
    /\ pc' = IF shutdown_event THEN "cleanup" ELSE "get"
    /\ UNCHANGED <<signal_queue, shutdown_event, running, event,
                   active_orders_tickers, orders, total_capital_required, leg,
                   lookups, capital_read, bus_log, error, cleanups, handled,
                   published, sharedVars>>
    /\ UNCHANGED <<brokerVars, engineVars, libVars, mainVars>>

\* A queue that hands out the newest item first.
GetNewest ==
    /\ pc = "get"
    /\ signal_queue /= <<>>
    /\ event' = signal_queue[Len(signal_queue)]
    /\ signal_queue' = SubSeq(signal_queue, 1, Len(signal_queue) - 1)
    /\ handled' = handled + 1
    /\ active_orders_tickers' = {}
    /\ orders' = <<>>
    /\ total_capital_required' = 0
    /\ leg' = 0
    /\ lookups' = <<>>
    /\ capital_read' = <<>>
    /\ bus_log' = <<>>
    /\ pc' = "handle"
    /\ UNCHANGED <<shutdown_event, running, error, cleanups, published, sharedVars>>
    /\ UNCHANGED <<brokerVars, engineVars, libVars, mainVars>>

\* process, line 65: event = self.signal_queue.get()  (blocks while empty)
Get ==
    /\ pc = "get"
    /\ signal_queue /= <<>>
    /\ event' = Head(signal_queue)
    /\ signal_queue' = Tail(signal_queue)
    /\ handled' = handled + 1
    /\ active_orders_tickers' = {}
    /\ orders' = <<>>
    /\ total_capital_required' = 0
    /\ leg' = 0
    /\ lookups' = <<>>
    /\ capital_read' = <<>>
    /\ bus_log' = <<>>
    /\ pc' = "handle"
    /\ UNCHANGED <<shutdown_event, running, error, cleanups, published, sharedVars>>
    /\ UNCHANGED <<brokerVars, engineVars, libVars, mainVars>>

\* handle_event, lines 94-112.
HandleEvent ==
    /\ pc = "handle"
    /\ IF event.kind /= "SignalEvent"
       THEN \* line 94: the payload has no attribute instructions
            /\ error' = "AttributeError"
            /\ pc' = AfterRaise("AttributeError")
            /\ UNCHANGED <<active_orders_tickers, bus_log, leg>>
       ELSE /\ active_orders_tickers' = active_orders
            /\ IF HasConflict(event.instructions, active_orders)
               THEN /\ bus_log' = Append(bus_log, RejectMsg)
                    /\ pc' = "loop"
                    /\ UNCHANGED <<error, leg>>
               ELSE /\ pc' = "cost"
                    /\ leg' = 1
                    /\ UNCHANGED <<bus_log, error>>
    /\ UNCHANGED <<signal_queue, shutdown_event, running, event, orders,
                   total_capital_required, lookups, capital_read, cleanups, handled,
                   published, sharedVars>>
    /\ UNCHANGED <<brokerVars, engineVars, libVars, mainVars>>

\* A costing loop that swallows a failed lookup and goes on to the next leg.
CostLegSkipsUnpriced ==
    /\ pc = "cost"
    /\ LET trade == event.instructions[leg]
           last == leg = Len(event.instructions)
       IN IF trade.instrument \notin KnownSymbols
          THEN /\ error' = "KeyError"
               /\ pc' = AfterRaise("KeyError")
               /\ UNCHANGED <<orders, total_capital_required, leg, lookups>>
          ELSE /\ lookups' = Append(lookups, Retrieve(order_book, trade.instrument))
               /\ IF Retrieve(order_book, trade.instrument) = NoPrice
                  THEN UNCHANGED <<orders, total_capital_required>>
                  ELSE /\ orders' = Append(orders, OrderDetails(event.timestamp, trade))
                       /\ total_capital_required' =
                              AddCost(total_capital_required, trade.action,
                                      SymbolCost(trade.instrument, trade.quantity,
                                                 Retrieve(order_book, trade.instrument)))
               /\ leg' = IF last THEN 0 ELSE leg + 1
               /\ pc' = IF ~last THEN "cost"
                        ELSE IF orders' = <<>> THEN "loop" ELSE "decide"
               /\ UNCHANGED error
    /\ UNCHANGED <<signal_queue, shutdown_event, running, event,
                   active_orders_tickers, capital_read, bus_log, cleanups, handled,
                   published, sharedVars>>
    /\ UNCHANGED <<brokerVars, engineVars, libVars, mainVars>>

\* _handle_signal, lines 140-160: one iteration of the costing loop.
CostLeg ==
    /\ pc = "cost"
    /\ LET trade == event.instructions[leg]
       IN IF trade.instrument \notin KnownSymbols
          THEN \* line 142: self.symbols_map.map[trade.instrument]
               /\ error' = "KeyError"
               /\ pc' = AfterRaise("KeyError")
               /\ UNCHANGED <<orders, total_capital_required, leg, lookups>>
          ELSE /\ lookups' = Append(lookups, Retrieve(order_book, trade.instrument))
               /\ IF Retrieve(order_book, trade.instrument) = NoPrice
                  THEN \* line 144: the lookup fails
                       /\ error' = "NotFound"
                       /\ pc' = AfterRaise("NotFound")
                       /\ UNCHANGED <<orders, total_capital_required, leg>>
                  ELSE /\ orders' = Append(orders, OrderDetails(event.timestamp, trade))
                       /\ total_capital_required' =
                              AddCost(total_capital_required, trade.action,
                                      SymbolCost(trade.instrument, trade.quantity,
                                                 Retrieve(order_book, trade.instrument)))
                       /\ leg' = IF leg = Len(event.instructions) THEN 0 ELSE leg + 1
                       /\ pc' = IF leg = Len(event.instructions) THEN "decide" ELSE "cost"
                       /\ UNCHANGED error
    /\ UNCHANGED <<signal_queue, shutdown_event, running, event,
                   active_orders_tickers, capital_read, bus_log, cleanups, handled,
                   published, sharedVars>>
    /\ UNCHANGED <<brokerVars, engineVars, libVars, mainVars>>

\* An admission that reserves the required capital in the Portfolio State.
DecideReserves ==
    /\ pc = "decide"
    /\ capital_read' = <<capital>>
    /\ IF Admits(total_capital_required, capital)
       THEN /\ pc' = "emit"
            /\ leg' = 1
            /\ capital' = capital - total_capital_required
            /\ UNCHANGED bus_log
       ELSE /\ bus_log' = Append(bus_log, RejectMsg)
            /\ pc' = "loop"
            /\ UNCHANGED <<leg, capital>>
    /\ UNCHANGED <<signal_queue, shutdown_event, running, event,
                   active_orders_tickers, orders, total_capital_required, lookups,
                   error, cleanups, handled, published, order_book, active_orders>>
    /\ overlap' = (overlap \/ (Admits(total_capital_required, capital)
                                    /\ outstanding /= <<>>))
    /\ UNCHANGED <<broker_subscribed, outstanding, engineVars, libVars, mainVars>>

\* _handle_signal, lines 162 and 172-174.
Decide ==
    /\ pc = "decide"
    /\ capital_read' = <<capital>>
    /\ IF Admits(total_capital_required, capital)
       THEN /\ pc' = "emit"
            /\ leg' = 1
            /\ UNCHANGED bus_log
       ELSE /\ bus_log' = Append(bus_log, RejectMsg)
            /\ pc' = "loop"
            /\ UNCHANGED leg
    /\ UNCHANGED <<signal_queue, shutdown_event, running, event,
                   active_orders_tickers, orders, total_capital_required, lookups,
                   error, cleanups, handled, published, sharedVars>>
    /\ overlap' = (overlap \/ (Admits(total_capital_required, capital)
                                    /\ outstanding /= <<>>))
    /\ UNCHANGED <<broker_subscribed, outstanding, engineVars, libVars, mainVars>>

\* _handle_signal, lines 163-171 with _set_order, lines 199-212: one order.
\* built = FALSE: OrderEvent(...) or bus.publish raised, which _set_order
\* re-raises as RuntimeError.
SetOrder ==
    /\ pc = "emit"
    /\ \E built \in BOOLEAN :
         IF built
         THEN /\ bus_log' = Append(bus_log, OrderMsg(NextOrder(orders, leg)))
              /\ outstanding' = Delivered(outstanding, NextOrder(orders, leg),
                                          broker_subscribed)
              /\ leg' = IF leg = Len(orders) THEN 0 ELSE leg + 1
              /\ pc' = IF leg = Len(orders) THEN "loop" ELSE "emit"
              /\ UNCHANGED error
         ELSE /\ error' = "RuntimeError"
              /\ pc' = AfterRaise("RuntimeError")
              /\ UNCHANGED <<bus_log, leg, outstanding>>
    /\ UNCHANGED <<signal_queue, shutdown_event, running, event,
                   active_orders_tickers, orders, total_capital_required, lookups,
                   capital_read, cleanups, handled, published, sharedVars>>
    /\ UNCHANGED <<broker_subscribed, overlap, engineVars, libVars, mainVars>>

\* process, line 71 and cleanup, lines 73-74.
Cleanup ==
    /\ pc = "cleanup"
    /\ cleanups' = cleanups + 1
    /\ pc' = "done"
    /\ UNCHANGED <<signal_queue, shutdown_event, running, event,
                   active_orders_tickers, orders, total_capital_required, leg,
                   lookups, capital_read, bus_log, error, handled, published,
                   sharedVars>>
    /\ UNCHANGED <<brokerVars, engineVars, libVars, mainVars>>

\* ------------------------------------------------------- other threads
\* The strategy: bus.publish(EventType.SIGNAL, SignalEvent(...)).
PublishSignal ==
    /\ published < MaxSignals
    /\ \E s \in Signals(published + 1) :
         signal_queue' = Append(signal_queue, s)
    /\ published' = published + 1
    /\ UNCHANGED <<shutdown_event, workerVars, sharedVars>>
    /\ UNCHANGED <<brokerVars, engineVars, libVars, mainVars>>

\* A publisher that puts a payload that is no SignalEvent (it has no
\* attribute instructions) on the SIGNAL queue.
PublishOther ==
    /\ published < MaxSignals
    /\ signal_queue' = Append(signal_queue, BadPayload)
    /\ published' = published + 1
    /\ UNCHANGED <<shutdown_event, workerVars, sharedVars>>
    /\ UNCHANGED <<brokerVars, engineVars, libVars, mainVars>>

\* CoreEngine.stop, line 146.
RequestShutdown ==
    /\ ~shutdown_event
    /\ shutdown_event' = TRUE
    /\ UNCHANGED <<signal_queue, published, workerVars, sharedVars>>
    /\ UNCHANGED <<brokerVars, engineVars, libVars, mainVars>>

\* Order Book update(instrument, price): last write wins.
UpdatePrice ==
    /\ \E s \in KnownSymbols, p \in Prices :
         /\ order_book[s] /= p
         /\ order_book' = [order_book EXCEPT ![s] = p]
    /\ UNCHANGED <<signal_queue, shutdown_event, published, workerVars, capital,
                   active_orders>>
    /\ UNCHANGED <<brokerVars, engineVars, libVars, mainVars>>

\* Portfolio State: an order on s is recorded as submitted.
RecordOrderSubmitted ==
    /\ \E s \in KnownSymbols :
         /\ s \notin active_orders
         /\ active_orders' = active_orders \cup {s}
    /\ UNCHANGED <<signal_queue, shutdown_event, published, workerVars, capital,
                   order_book>>
    /\ UNCHANGED <<brokerVars, engineVars, libVars, mainVars>>

\* Portfolio State: the order on s reached a terminal state.
RecordOrderTerminal ==
    /\ \E s \in active_orders : active_orders' = active_orders \ {s}
    /\ UNCHANGED <<signal_queue, shutdown_event, published, workerVars, capital,
                   order_book>>
    /\ UNCHANGED <<brokerVars, engineVars, libVars, mainVars>>

\* Portfolio State: a fill or account update sets available capital.
ApplyAccountUpdate ==
    /\ \E c \in Capitals :
         /\ c /= capital
         /\ capital' = c
    /\ UNCHANGED <<signal_queue, shutdown_event, published, workerVars, order_book,
                   active_orders>>
    /\ UNCHANGED <<brokerVars, engineVars, libVars, mainVars>>

Next ==
    \/ Start
    \/ LoopCheck
    \/ Get
    \/ HandleEvent
    \/ CostLeg
    \/ Decide
    \/ SetOrder
    \/ Cleanup
    \/ PublishSignal
    \/ PublishOther
    \/ RequestShutdown
    \/ UpdatePrice
    \/ RecordOrderSubmitted
    \/ RecordOrderTerminal
    \/ ApplyAccountUpdate

Spec == Init /\ [][Next]_vars

\* The worker when the strategy publishes only between __init__ (the
\* subscription of line 40) and the start of process.
PublishBeforeStart ==
    /\ pc = "start"
    /\ PublishSignal

NextPreStart ==
    \/ Start
    \/ LoopCheck
    \/ Get
    \/ HandleEvent
    \/ CostLeg
    \/ Decide
    \/ SetOrder
    \/ Cleanup
    \/ PublishBeforeStart
    \/ RequestShutdown
    \/ UpdatePrice
    \/ RecordOrderSubmitted
    \/ RecordOrderTerminal
    \/ ApplyAccountUpdate

SpecPreStart == Init /\ [][NextPreStart]_vars

\* ------------------------------------------- orders followed downstream
\* The worker run with a subscriber of EventType.ORDER: every ORDER event
\* published is outstanding until the Portfolio State has applied its fill;
\* capital and the active-order set change through that path only.
RemoveAt(q, i) == SubSeq(q, 1, i - 1) \o SubSeq(q, i + 1, Len(q))

\* The capital an order consumes when it fills at the book's price.
FillCost(o, book) ==
    IF IsExit(o.action) THEN 0
    ELSE SymbolCost(o.contract, o.quantity, Retrieve(book, o.contract))

InitBroker ==
    /\ signal_queue = <<>>
    /\ shutdown_event = FALSE
    /\ running = FALSE
    /\ pc = "start"
    /\ event = NoEvent
    /\ active_orders_tickers = {}
    /\ orders = <<>>
    /\ total_capital_required = 0
    /\ leg = 0
    /\ lookups = <<>>
    /\ capital_read = <<>>
    /\ bus_log = <<>>
    /\ error = "none"
    /\ cleanups = 0
    /\ handled = 0
    /\ published = 0
    /\ order_book = [s \in KnownSymbols |-> NoPrice]
    /\ capital = MaxCapital
    /\ active_orders = {}
    /\ broker_subscribed = TRUE
    /\ outstanding = <<>>
    /\ overlap = FALSE
    /\ EngineDetached
    /\ LibraryIdle

\* Portfolio State: an outstanding order is recorded as active.
RecordOutstanding ==
    /\ \E i \in 1..Len(outstanding) :
         /\ outstanding[i].contract \notin active_orders
         /\ active_orders' = active_orders \cup {outstanding[i].contract}
    /\ UNCHANGED <<signal_queue, shutdown_event, published, workerVars, capital,
                   order_book, brokerVars, engineVars, libVars, mainVars>>

\* Portfolio State: the fill of an outstanding order is applied; the order
\* is terminal, and its instrument stays active only while another order
\* on it is outstanding.
ApplyFill ==
    /\ \E i \in 1..Len(outstanding) :
         LET o == outstanding[i]
             rest == RemoveAt(outstanding, i)
         IN /\ capital' = capital - FillCost(o, order_book)
            /\ outstanding' = rest
            /\ active_orders' =
                   IF \E j \in 1..Len(rest) : rest[j].contract = o.contract
                   THEN active_orders
                   ELSE active_orders \ {o.contract}
    /\ UNCHANGED <<signal_queue, shutdown_event, published, workerVars, order_book,
                   broker_subscribed, overlap, engineVars, libVars, mainVars>>

NextBroker ==
    \/ Start
    \/ LoopCheck
    \/ Get
    \/ HandleEvent
    \/ CostLeg
    \/ Decide
    \/ SetOrder
    \/ Cleanup
    \/ PublishSignal
    \/ RequestShutdown
    \/ UpdatePrice
    \/ RecordOutstanding
    \/ ApplyFill

SpecBroker == InitBroker /\ [][NextBroker]_vars

\* ------------------------------------------------------------ CoreEngine
\* CoreEngine.start / _monitor_threads / wait_until_complete / stop run
\* over the five adapters. The order manager is the worker above, reading
\* a SIGNAL queue nobody publishes to; the Performance Collector is
\* PerformanceManager.process with its four threads; the other three
\* adapters follow the lifecycle contract.
Running(a) == IF a = "order_manager" THEN running ELSE ad_running[a]
ShutdownSet(a) == IF a = "order_manager" THEN shutdown_event ELSE ad_shutdown[a]
Started(a) ==
    CASE a = "order_manager" -> pc /= "idle"
      [] a = "performance_manager" -> pm_pc /= "idle"
      [] OTHER -> ad_pc[a] /= "idle"
Terminated(a) ==
    CASE a = "order_manager" -> pc \in {"done", "crashed"}
      [] a = "performance_manager" -> pm_pc = "done"
      [] OTHER -> ad_pc[a] = "done"

\* start, line 117: adapter.running.wait()
MayProceedAnyway(a) == TRUE
MayProceed(a) == Running(a)

\* stop, lines 143-149, in program order.
StopStepsSaveLast ==
    <<"order_book", "order_manager", "portfolio_server", "performance_manager",
      "strategy", "save">>
StopSteps ==
    <<"save", "order_book", "order_manager", "portfolio_server",
      "performance_manager", "strategy">>

CoreEngineBuilt ==
    /\ signal_queue = <<>>
    /\ shutdown_event = FALSE
    /\ running = FALSE
    /\ pc = "idle"
    /\ event = NoEvent
    /\ active_orders_tickers = {}
    /\ orders = <<>>
    /\ total_capital_required = 0
    /\ leg = 0
    /\ lookups = <<>>
    /\ capital_read = <<>>
    /\ bus_log = <<>>
    /\ error = "none"
    /\ cleanups = 0
    /\ handled = 0
    /\ published = 0
    /\ order_book = [s \in KnownSymbols |-> NoPrice]
    /\ capital = MaxCapital
    /\ active_orders = {}
    /\ BrokerDetached
    /\ EngineConstructed
    /\ LibraryIdle

\* CoreEngine.start and CoreEngine.stop are called directly.
InitEngine ==
    /\ CoreEngineBuilt
    /\ start_pc = "spawn"
    /\ stop_pc = "idle"
    /\ MainConstructed("BACKTEST")

\* start, lines 111-122, one statement at a time.
EngineStart ==
    /\ IF start_pc = "spawn"
       THEN \* lines 114-116: thread.start() of adapter.process
            LET a == AdapterOrder[start_k]
            IN /\ pc' = IF a = "order_manager" THEN "start" ELSE pc
               /\ pm_pc' = IF a = "performance_manager" THEN "start" ELSE pm_pc
               /\ ad_pc' = IF a \in LifecycleAdapters
                           THEN [ad_pc EXCEPT ![a] = "start"] ELSE ad_pc
               /\ start_pc' = "wait"
               /\ UNCHANGED <<start_k, monitor_pc, engine_running>>
       ELSE IF start_pc = "wait"
       THEN \* line 117: adapter.running.wait()
            /\ MayProceed(AdapterOrder[start_k])
            /\ start_pc' = IF start_k = Len(AdapterOrder) THEN "monitor" ELSE "spawn"
            /\ start_k' = IF start_k = Len(AdapterOrder) THEN start_k ELSE start_k + 1
            /\ UNCHANGED <<pc, pm_pc, ad_pc, monitor_pc, engine_running>>
       ELSE IF start_pc = "monitor"
       THEN \* line 120: the monitor thread is started
            /\ monitor_pc' = "join"
            /\ start_pc' = "set"
            /\ UNCHANGED <<pc, pm_pc, ad_pc, start_k, engine_running>>
       ELSE \* line 122: self.running.set()
            /\ start_pc = "set"
            /\ engine_running' = TRUE
            /\ start_pc' = "done"
            /\ UNCHANGED <<pc, pm_pc, ad_pc, start_k, monitor_pc>>
    /\ UNCHANGED <<signal_queue, shutdown_event, running, event,
                   active_orders_tickers, orders, total_capital_required, leg,
                   lookups, capital_read, bus_log, error, cleanups, handled,
                   published, sharedVars, brokerVars, libVars, mainVars>>
    /\ UNCHANGED <<ad_running, ad_shutdown, sub_pc, pm_queue, pm_published,
                   saves, pm_cleanups, monitor_k, completed, stop_pc, stop_log,
                   wait_pc>>

\* _monitor_threads, lines 124-132.
MonitorThreads ==
    /\ monitor_pc = "join"
    /\ IF monitor_k <= Len(AdapterOrder)
       THEN \* lines 128-129: thread.join()
            /\ Terminated(AdapterOrder[monitor_k])
            /\ monitor_k' = monitor_k + 1
            /\ UNCHANGED <<monitor_pc, completed>>
       ELSE \* line 132: self.completed.set()
            /\ monitor_pc' = IF completed = "undefined" THEN "AttributeError" ELSE "done"
            /\ completed' = IF completed = "undefined" THEN completed ELSE "set"
            /\ UNCHANGED monitor_k
    /\ UNCHANGED wait_pc

\* wait_until_complete, lines 134-138.
WaitUntilComplete ==
    /\ IF wait_pc = "idle"
       THEN \* line 138 evaluates self.completed
            wait_pc' = IF completed = "undefined" THEN "AttributeError" ELSE "waiting"
       ELSE /\ wait_pc = "waiting"
            /\ completed = "set"
            /\ wait_pc' = "returned"
    /\ UNCHANGED <<monitor_pc, monitor_k, completed>>

\* The two threads of the completion protocol: the monitor, which only
\* line 120 starts, and a caller of wait_until_complete.
CompletionThreads ==
    /\ \E thread \in {"monitor", "waiter"} :
         IF thread = "monitor" THEN MonitorThreads ELSE WaitUntilComplete
    /\ UNCHANGED <<signal_queue, shutdown_event, published, workerVars, sharedVars,
                   brokerVars, libVars, mainVars>>
    /\ UNCHANGED <<ad_pc, ad_running, ad_shutdown, pm_pc, sub_pc, pm_queue,
                   pm_published, saves, pm_cleanups, start_pc, start_k,
                   engine_running,
                   stop_pc, stop_log>>

\* stop, lines 140-149, one statement at a time; save() may raise.
EngineStop ==
    /\ stop_pc \in {"idle", "stopping"}
    /\ LET step == StopSteps[Len(stop_log) + 1]
           last == Len(stop_log) + 1 = Len(StopSteps)
       IN IF step = "save"
          THEN \E saved \in BOOLEAN :
                 IF saved
                 THEN /\ saves' = saves + 1
                      /\ stop_log' = Append(stop_log, step)
                      /\ stop_pc' = IF last THEN "returned" ELSE "stopping"
                      /\ UNCHANGED <<shutdown_event, ad_shutdown>>
                 ELSE /\ stop_pc' = "raised"
                      /\ UNCHANGED <<saves, stop_log, shutdown_event, ad_shutdown>>
          ELSE /\ shutdown_event' = IF step = "order_manager" THEN TRUE
                                    ELSE shutdown_event
               /\ ad_shutdown' = IF step = "order_manager" THEN ad_shutdown
                                 ELSE [ad_shutdown EXCEPT ![step] = TRUE]
               /\ stop_log' = Append(stop_log, step)
               /\ stop_pc' = IF last THEN "returned" ELSE "stopping"
               /\ UNCHANGED saves
    /\ UNCHANGED <<signal_queue, published, workerVars, sharedVars, brokerVars,
                   libVars, mainVars, pm_cleanups>>
    /\ UNCHANGED <<ad_pc, ad_running, pm_pc, sub_pc, pm_queue, pm_published,
                   start_pc, start_k, engine_running, monitor_pc, monitor_k,
                   completed, wait_pc>>

\* process of an adapter known by the lifecycle contract: running is set,
\* the loop polls its queue with a bounded wait until shutdown_event is
\* set, cleanup runs, the thread ends.
AdapterProcess ==
    /\ \E a \in LifecycleAdapters :
         IF ad_pc[a] = "start"
         THEN /\ ad_running' = [ad_running EXCEPT ![a] = TRUE]
              /\ ad_pc' = [ad_pc EXCEPT ![a] = "loop"]
         ELSE IF ad_pc[a] = "loop"
         THEN /\ ad_shutdown[a]
              /\ ad_pc' = [ad_pc EXCEPT ![a] = "cleanup"]
              /\ UNCHANGED ad_running
         ELSE /\ ad_pc[a] = "cleanup"
              /\ ad_pc' = [ad_pc EXCEPT ![a] = "done"]
              /\ UNCHANGED ad_running
    /\ UNCHANGED <<signal_queue, shutdown_event, published, workerVars, sharedVars,
                   brokerVars, libVars, mainVars>>
    /\ UNCHANGED <<ad_shutdown, pm_pc, sub_pc, pm_queue, pm_published,
                   saves, pm_cleanups, start_pc, start_k, engine_running,
                   monitor_pc, monitor_k,
                   completed, stop_pc, stop_log, wait_pc>>

\* A thread has ended: its loop returned, or an exception ended it.
Ended(position) == position \in {"done", "crashed"}

\* A process that gives up its cleanup when one of its threads crashed.
PMProcessSkipsCleanupAfterCrash ==
    /\ IF pm_pc = "start"
       THEN /\ sub_pc' = [i \in SubLoops |-> "loop"]
            /\ pm_pc' = "join"
            /\ UNCHANGED <<saves, pm_cleanups>>
       ELSE IF pm_pc = "join"
       THEN /\ \A i \in SubLoops : Ended(sub_pc[i])
            /\ pm_pc' = IF \E i \in SubLoops : sub_pc[i] = "crashed"
                        THEN "done" ELSE "cleanup"
            /\ UNCHANGED <<sub_pc, saves, pm_cleanups>>
       ELSE /\ pm_pc = "cleanup"
            /\ pm_cleanups' = pm_cleanups + 1
            /\ saves' = saves + 1
            /\ pm_pc' = "done"
            /\ UNCHANGED sub_pc
    /\ UNCHANGED <<signal_queue, shutdown_event, published, workerVars, sharedVars,
                   brokerVars, libVars, mainVars>>
    /\ UNCHANGED <<ad_pc, ad_running, ad_shutdown, pm_queue, pm_published,
                   start_pc, start_k, engine_running, monitor_pc, monitor_k,
                   completed, stop_pc, stop_log, wait_pc>>

\* PerformanceManager.process, lines 107-130, and cleanup, lines 132-134.
PMProcess ==
    /\ IF pm_pc = "start"
       THEN \* lines 110-124: the four threads are created and started
            /\ sub_pc' = [i \in SubLoops |-> "loop"]
            /\ pm_pc' = "join"
            /\ UNCHANGED <<saves, pm_cleanups>>
       ELSE IF pm_pc = "join"
       THEN \* lines 126-127: thread.join() of each returns once it has ended
            /\ \A i \in SubLoops : Ended(sub_pc[i])
            /\ pm_pc' = "cleanup"
            /\ UNCHANGED <<sub_pc, saves, pm_cleanups>>
       ELSE \* lines 128-134: finally: self.cleanup() -> self.save()
            /\ pm_pc = "cleanup"
            /\ pm_cleanups' = pm_cleanups + 1
            /\ saves' = saves + 1
            /\ pm_pc' = "done"
            /\ UNCHANGED sub_pc
    /\ UNCHANGED <<signal_queue, shutdown_event, published, workerVars, sharedVars,
                   brokerVars, libVars, mainVars>>
    /\ UNCHANGED <<ad_pc, ad_running, ad_shutdown, pm_queue, pm_published,
                   start_pc, start_k, engine_running, monitor_pc, monitor_k,
                   completed, stop_pc, stop_log, wait_pc>>

\* process_account / process_trades / process_equity / process_signal,
\* lines 136-196: while not shutdown_event: item = queue.get(); the manager
\* is updated with it. applied = FALSE: the update raised; only queue.Empty
\* is caught, so the exception ends the thread.
PMSubLoop ==
    /\ \E i \in SubLoops :
         IF sub_pc[i] = "loop"
         THEN /\ sub_pc' = [sub_pc EXCEPT ![i] =
                               IF ad_shutdown["performance_manager"]
                               THEN "done" ELSE "get"]
              /\ UNCHANGED pm_queue
         ELSE /\ sub_pc[i] = "get"
              /\ pm_queue[i] > 0
              /\ pm_queue' = [pm_queue EXCEPT ![i] = pm_queue[i] - 1]
              /\ \E applied \in BOOLEAN :
                    sub_pc' = [sub_pc EXCEPT ![i] =
                                  IF applied THEN "loop" ELSE "crashed"]
    /\ UNCHANGED <<signal_queue, shutdown_event, published, workerVars, sharedVars,
                   brokerVars, libVars, mainVars>>
    /\ UNCHANGED <<ad_pc, ad_running, ad_shutdown, pm_pc, pm_published, saves,
                   pm_cleanups, start_pc, start_k, engine_running, monitor_pc,
                   monitor_k, completed, stop_pc, stop_log, wait_pc>>

\* A publisher puts an item on one of the Performance Collector's queues.
PublishToPM ==
    /\ pm_published < MaxItems
    /\ \E i \in SubLoops : pm_queue' = [pm_queue EXCEPT ![i] = pm_queue[i] + 1]
    /\ pm_published' = pm_published + 1
    /\ UNCHANGED <<signal_queue, shutdown_event, published, workerVars, sharedVars,
                   brokerVars, libVars, mainVars>>
    /\ UNCHANGED <<ad_pc, ad_running, ad_shutdown, pm_pc, sub_pc,
                   saves, pm_cleanups, start_pc, start_k, engine_running,
                   monitor_pc, monitor_k,
                   completed, stop_pc, stop_log, wait_pc>>

NextEngine ==
    \/ EngineStart
    \/ CompletionThreads
    \/ EngineStop
    \/ AdapterProcess
    \/ PMProcess
    \/ PMSubLoop
    \/ PublishToPM
    \/ Start
    \/ LoopCheck
    \/ Cleanup

SpecEngine == InitEngine /\ [][NextEngine]_vars

\* Every thread that can take a step eventually takes one.
FairSpecEngine == SpecEngine /\ WF_vars(NextEngine)

\* ------------------------------------------------------- Engine.start
Modes == {"BACKTEST", "LIVE"}

\* start, lines 290-297: the threads started, in program order.
EngineThreads == <<"core_engine.start", "execution_engine.start", "data_engine.start">>

\* The attributes of an Engine: __init__ (lines 247-255) and line 322.
EngineAttributes ==
    {"mode", "config", "symbols_map", "logger", "parameters", "core_engine",
     "data_engine", "execution_engine", "threads", "running"}

\* _live_loop, lines 329-334: what follows the while loop, in program order.
LiveCleanupSteps ==
    << [self |-> TRUE, attribute |-> "database_updater",
        call |-> "database_updater.delete_session"],
       [self |-> TRUE, attribute |-> "broker_client",
        call |-> "broker_client.request_account_summary"],
       [self |-> FALSE, attribute |-> "time", call |-> "time.sleep"],
       [self |-> TRUE, attribute |-> "performance_manager",
        call |-> "performance_manager.save"] >>

\* entry is in the log of Engine.start.
Logged(entry) == \E i \in 1..Len(main_log) : main_log[i] = entry
\* The position of the first entry in the log (0: not logged).
LoggedAt(entry) ==
    IF Logged(entry) THEN CHOOSE i \in 1..Len(main_log) :
                              /\ main_log[i] = entry
                              /\ \A j \in 1..(i - 1) : main_log[j] /= entry
    ELSE 0
\* How many times entry is in the log.
Times(entry) == Cardinality({i \in 1..Len(main_log) : main_log[i] = entry})
\* The steps of LiveCleanupSteps made so far.
CleanupStepsDone ==
    Cardinality({i \in 1..Len(main_log) :
                    \E k \in 1..Len(LiveCleanupSteps) :
                        main_log[i] = LiveCleanupSteps[k].call})

\* start, lines 298-301: the loop entered once the threads are started.
AfterLaunchSkipsWait(m) == IF m = "BACKTEST" THEN "execution_stop" ELSE "live_init"
AfterLaunch(m) == IF m = "BACKTEST" THEN "wait_data" ELSE "live_init"

\* Engine.start was called; CoreEngine is built and none of its methods runs
\* before Engine.start runs it.
InitMain ==
    /\ CoreEngineBuilt
    /\ start_pc = "unlaunched"
    /\ stop_pc = "uncalled"
    /\ mode \in Modes
    /\ main_pc = "launch"
    /\ main_running = "undefined"
    /\ main_log = <<>>

\* start, lines 290-301: one thread.start() per step, then the mode's loop.
MainStart ==
    /\ main_pc = "launch"
    /\ LET k == Len(main_log) + 1
       IN /\ main_log' = Append(main_log, EngineThreads[k])
          /\ start_pc' = IF EngineThreads[k] = "core_engine.start"
                         THEN "spawn" ELSE start_pc
          /\ main_pc' = IF k < Len(EngineThreads) THEN "launch"
                        ELSE AfterLaunch(mode)
    /\ UNCHANGED <<mode, main_running>>
    /\ UNCHANGED <<signal_queue, shutdown_event, published, workerVars,
                   sharedVars, brokerVars, libVars>>
    /\ UNCHANGED <<ad_pc, ad_running, ad_shutdown, pm_pc, sub_pc, pm_queue,
                   pm_published, saves, pm_cleanups, start_k, engine_running,
                   monitor_pc, monitor_k, completed, stop_pc, stop_log, wait_pc>>

\* The data engine's thread has fed all of its data.
DataEngineCompletes ==
    /\ Logged("data_engine.start")
    /\ ~Logged("data_engine completed")
    /\ main_log' = Append(main_log, "data_engine completed")
    /\ UNCHANGED <<mode, main_pc, main_running, coreVars, libVars>>

\* _backtest_loop, line 309: data_engine.wait_until_complete() returns.
BacktestWait ==
    /\ main_pc = "wait_data"
    /\ Logged("data_engine completed")
    /\ main_log' = Append(main_log, "data_engine.wait_until_complete returned")
    /\ main_pc' = "execution_stop"
    /\ UNCHANGED <<mode, main_running, coreVars, libVars>>

\* _backtest_loop, line 313: execution_engine.stop() returns or raises.
ExecutionStop ==
    /\ main_pc = "execution_stop"
    /\ \E returned \in BOOLEAN :
         IF returned
         THEN /\ main_log' = Append(main_log, "execution_engine.stop returned")
              /\ main_pc' = "core_stop"
         ELSE /\ main_log' = Append(main_log, "execution_engine.stop raised")
              /\ main_pc' = "raised"
    /\ UNCHANGED <<mode, main_running, coreVars, libVars>>

\* _backtest_loop, line 316: core_engine.stop() is entered.
CoreStopCall ==
    /\ main_pc = "core_stop"
    /\ main_log' = Append(main_log, "core_engine.stop called")
    /\ stop_pc' = "stopping"
    /\ main_pc' = "in_core_stop"
    /\ UNCHANGED <<mode, main_running>>
    /\ UNCHANGED <<signal_queue, shutdown_event, published, workerVars,
                   sharedVars, brokerVars, libVars>>
    /\ UNCHANGED <<ad_pc, ad_running, ad_shutdown, pm_pc, sub_pc, pm_queue,
                   pm_published, saves, pm_cleanups, start_pc, start_k,
                   engine_running, monitor_pc, monitor_k, completed, stop_log,
                   wait_pc>>

\* _backtest_loop, lines 316-318: core_engine.stop() has returned or raised.
CoreStopReturn ==
    /\ main_pc = "in_core_stop"
    /\ stop_pc \in {"returned", "raised"}
    /\ main_log' = Append(main_log, IF stop_pc = "returned"
                                    THEN "core_engine.stop returned"
                                    ELSE "core_engine.stop raised")
    /\ main_pc' = IF stop_pc = "returned" THEN "done" ELSE "raised"
    /\ UNCHANGED <<mode, main_running, coreVars, libVars>>

\* _live_loop, lines 322-334, one statement at a time. A step on an
\* attribute the Engine does not have raises AttributeError.
LiveLoop ==
    /\ IF main_pc = "live_init"
       THEN \* lines 322-323
            /\ main_running' = "True"
            /\ main_pc' = "live_loop"
            /\ UNCHANGED main_log
       ELSE IF main_pc = "live_loop"
       THEN \* lines 325-326: while self.running: continue
            /\ main_running = "False"
            /\ main_pc' = "live_cleanup"
            /\ UNCHANGED <<main_running, main_log>>
       ELSE \* lines 329-334
            /\ main_pc = "live_cleanup"
            /\ LET k == CleanupStepsDone + 1
                   step == LiveCleanupSteps[k]
               IN IF step.self /\ step.attribute \notin EngineAttributes
                  THEN /\ main_log' = Append(main_log, "AttributeError")
                       /\ main_pc' = "raised"
                  ELSE /\ main_log' = Append(main_log, step.call)
                       /\ main_pc' = IF k = Len(LiveCleanupSteps)
                                     THEN "done" ELSE "live_cleanup"
            /\ UNCHANGED main_running
    /\ UNCHANGED <<mode, coreVars, libVars>>

\* _signal_handler, lines 347-356, run on SIGINT once line 323 installed it.
SignalHandler ==
    /\ main_pc = "live_loop"
    /\ main_running = "True"
    /\ main_running' = "False"
    /\ UNCHANGED <<mode, main_pc, main_log, coreVars, libVars>>

NextMain ==
    \/ MainStart
    \/ DataEngineCompletes
    \/ BacktestWait
    \/ ExecutionStop
    \/ CoreStopCall
    \/ CoreStopReturn
    \/ LiveLoop
    \/ SignalHandler
    \/ EngineStart
    \/ EngineStop
    \/ AdapterProcess
    \/ PMProcess
    \/ PMSubLoop
    \/ Start
    \/ LoopCheck
    \/ Cleanup

SpecMain == InitMain /\ [][NextMain]_vars

\* ------------------------------------------------------- the message bus
\* One event kind of the bus, EventType.TRADE_UPDATE, with the two adapters
\* that subscribe to it: subscribe gives each its own queue, publish
\* enqueues the payload onto every queue of the kind.
Subscribers == {"portfolio_server", "performance_manager"}

\* subscribe(kind): a new, empty queue for the subscriber.
WithSubscriber(f, sub, value) ==
    [s \in DOMAIN f \cup {sub} |-> IF s = sub THEN value ELSE f[s]]

\* publish(kind, payload) over the queues of the kind.
PublishToOne(queues, payload) ==
    IF DOMAIN queues = {} THEN queues
    ELSE LET target == CHOOSE s \in DOMAIN queues :
                           \A u \in DOMAIN queues : Len(queues[s]) <= Len(queues[u])
         IN [queues EXCEPT ![target] = Append(queues[target], payload)]
PublishToAll(queues, payload) ==
    [s \in DOMAIN queues |-> Append(queues[s], payload)]

\* self.bus.subscribe(EventType.TRADE_UPDATE), base.py line 93.
BusSubscribe ==
    /\ \E sub \in Subscribers \ DOMAIN bus_queues :
         /\ bus_queues' = WithSubscriber(bus_queues, sub, <<>>)
         /\ bus_consumed' = WithSubscriber(bus_consumed, sub, <<>>)
         /\ bus_joined' = WithSubscriber(bus_joined, sub, Len(bus_published))
    /\ UNCHANGED <<bus_published, structVars, coreVars, mainVars>>

\* bus.publish(EventType.TRADE_UPDATE, payload): the n-th payload is n.
BusPublish ==
    /\ Len(bus_published) < MaxPayloads
    /\ bus_published' = Append(bus_published, Len(bus_published) + 1)
    /\ bus_queues' = PublishToAll(bus_queues, Len(bus_published) + 1)
    /\ UNCHANGED <<bus_joined, bus_consumed, structVars, coreVars, mainVars>>

\* A subscriber's queue.get(), e.g. base.py line 160.
BusConsume ==
    /\ \E sub \in DOMAIN bus_queues :
         /\ bus_queues[sub] /= <<>>
         /\ bus_consumed' = [bus_consumed EXCEPT ![sub] =
                                Append(bus_consumed[sub], Head(bus_queues[sub]))]
         /\ bus_queues' = [bus_queues EXCEPT ![sub] = Tail(bus_queues[sub])]
    /\ UNCHANGED <<bus_published, bus_joined, structVars, coreVars, mainVars>>

NextBus ==
    \/ BusSubscribe
    \/ BusPublish
    \/ BusConsume

SpecBus == Init /\ [][NextBus]_vars

\* ------------------------------------------------------- the data classes
\* A Python value: its type, its number (v) or its text (s). nan is a float.
PyInt(n) == [t |-> "int", v |-> n, s |-> ""]
PyFloat(n) == [t |-> "float", v |-> n, s |-> ""]
PyNaN == [t |-> "float", v |-> 0, s |-> "nan"]
PyStr(text) == [t |-> "str", v |-> 0, s |-> text]
PyNone == [t |-> "NoneType", v |-> 0, s |-> ""]

isinstance(x, types) == x.t \in types
IsNaN(x) == x.t = "float" /\ x.s = "nan"
\* x <= n, x < n, x > n, x >= n on numbers: every comparison with nan is False.
LessEq(x, n) == ~IsNaN(x) /\ x.v <= n
Less(x, n) == ~IsNaN(x) /\ x.v < n
Greater(x, n) == ~IsNaN(x) /\ x.v > n
GreaterEq(x, n) == ~IsNaN(x) /\ x.v >= n
\* x == y: numbers by value across int and float, nan equal to nothing.
PyEq(x, y) ==
    IF isinstance(x, {"int", "float"}) /\ isinstance(y, {"int", "float"})
    THEN ~IsNaN(x) /\ ~IsNaN(y) /\ x.v = y.v
    ELSE x = y

\* Position.__post_init__, the type checks (lines 61-76).
PositionTypeError(p) ==
    \/ ~isinstance(p.action, {"str"})
    \/ ~isinstance(p.avg_cost, {"int", "float"})
    \/ ~isinstance(p.quantity, {"int", "float"})
    \/ ~isinstance(p.price_multiplier, {"float", "int"})
    \/ ~isinstance(p.quantity_multiplier, {"int"})
    \/ ~isinstance(p.initial_margin, {"int", "float"})
    \/ ~isinstance(p.total_cost, {"float", "int"})
    \/ ~isinstance(p.market_value, {"int", "float"})

\* Position.__post_init__, the constraint validation (lines 80-87).
PositionValueError(p) ==
    \/ p.action.s \notin {"BUY", "SELL"}
    \/ LessEq(p.price_multiplier, 0)
    \/ LessEq(p.quantity_multiplier, 0)
    \/ Less(p.initial_margin, 0)

\* Position(...): what the constructor call gives.
PositionPostInit(p) ==
    IF PositionTypeError(p) THEN "TypeError"
    ELSE IF PositionValueError(p) THEN "ValueError"
    ELSE "Position"

\* Position.__eq__ (lines 89-98); market_value is not among the fields.
PositionEq(self, other) ==
    IF other.class /= "Position" THEN FALSE
    ELSE /\ PyEq(self.action, other.fields.action)
         /\ PyEq(self.avg_cost, other.fields.avg_cost)
         /\ PyEq(self.quantity, other.fields.quantity)
         /\ PyEq(self.price_multiplier, other.fields.price_multiplier)
         /\ PyEq(self.quantity_multiplier, other.fields.quantity_multiplier)
         /\ PyEq(self.initial_margin, other.fields.initial_margin)
         /\ PyEq(self.total_cost, other.fields.total_cost)

\* Trade.__post_init__, the type check (lines 46-66), in the order of the code.
TradeTypeChecks ==
    << [field |-> "timestamp", types |-> {"int"}],
       [field |-> "trade_id", types |-> {"int"}],
       [field |-> "leg_id", types |-> {"int"}],
       [field |-> "instrument", types |-> {"int"}],
       [field |-> "quantity", types |-> {"float", "int"}],
       [field |-> "avg_price", types |-> {"float", "int"}],
       [field |-> "trade_value", types |-> {"float", "int"}],
       [field |-> "trade_cost", types |-> {"float", "int"}],
       [field |-> "action", types |-> {"str"}],
       [field |-> "fees", types |-> {"float", "int"}] >>

\* The texts of the TypeErrors raised at lines 47-66.
TradeTypeErrorMessage ==
    [timestamp |-> "TypeError: 'timestamp' field must be of type int.",
     trade_id |-> "TypeError: 'trade_id' field must be of type int.",
     leg_id |-> "TypeError: 'leg_id' field must be of type int.",
     instrument |-> "TypeError: 'instrument' field must be of type int.",
     quantity |-> "TypeError: 'quantity' field must be of type float or int.",
     avg_price |-> "TypeError: 'avg_price' field must be of type float or int.",
     trade_value |-> "TypeError: 'trade_value' field must be of type float or int.",
     trade_cost |-> "TypeError: 'trade_cost' field must be of type float or int.",
     action |-> "TypeError: 'action' field must be of type str.",
     fees |-> "TypeError: 'fees' field must be of type float or int."]

\* The i-th isinstance check fails.
TradeCheckFails(trade, i) ==
    ~isinstance(trade[TradeTypeChecks[i].field], TradeTypeChecks[i].types)

TradeTypeError(trade) ==
    \E i \in 1..Len(TradeTypeChecks) : TradeCheckFails(trade, i)

\* The field of the first check that fails: the one whose raise is executed.
TradeFirstWrongField(trade) ==
    LET i == CHOOSE i \in 1..Len(TradeTypeChecks) :
                 /\ TradeCheckFails(trade, i)
                 /\ \A j \in 1..(i - 1) : ~TradeCheckFails(trade, j)
    IN TradeTypeChecks[i].field

\* Trade.__post_init__, the value constraint (lines 69-75).
TradeValueErrorAnyCase(trade) ==
    \/ trade.action.s \notin {"BUY", "SELL", "LONG", "SHORT", "COVER",
                              "buy", "sell", "long", "short", "cover"}
    \/ LessEq(trade.avg_price, 0)
TradeValueError(trade) ==
    \/ trade.action.s \notin {"BUY", "SELL", "LONG", "SHORT", "COVER"}
    \/ LessEq(trade.avg_price, 0)

\* Trade(...): what the constructor call gives.
TradePostInitValueFirst(trade) ==
    IF TradeValueError(trade) THEN "ValueError"
    ELSE IF TradeTypeError(trade)
         THEN TradeTypeErrorMessage[TradeFirstWrongField(trade)]
    ELSE "Trade"
TradePostInit(trade) ==
    IF TradeTypeError(trade)
    THEN TradeTypeErrorMessage[TradeFirstWrongField(trade)]
    ELSE IF TradeValueError(trade) THEN "ValueError"
    ELSE "Trade"

\* The arguments the constructors are called with.
PositionArgs ==
    [action : {PyStr("BUY"), PyStr("SELL"), PyStr("HOLD"), PyInt(1)},
     avg_cost : {PyFloat(1), PyNone},
     quantity : {PyInt(1), PyStr("1")},
     total_cost : {PyFloat(1), PyNone},
     market_value : {PyFloat(1), PyNone},
     quantity_multiplier : {PyInt(-1), PyInt(0), PyInt(1), PyFloat(1), PyNone},
     price_multiplier : {PyInt(0), PyInt(1), PyFloat(-1), PyFloat(1), PyNaN,
                         PyNone},
     initial_margin : {PyInt(0), PyFloat(-1), PyFloat(1), PyNaN, PyNone}]

TradeArgs ==
    [timestamp : {PyInt(1), PyFloat(1)},
     trade_id : {PyInt(1), PyStr("1")},
     leg_id : {PyInt(1), PyStr("2")},
     instrument : {PyInt(1), PyStr("HE")},
     quantity : {PyInt(1), PyFloat(1), PyStr("1")},
     avg_price : {PyInt(-1), PyInt(0), PyInt(1), PyFloat(-1), PyFloat(0),
                  PyFloat(1), PyNaN, PyNone},
     trade_value : {PyFloat(1), PyNone},
     trade_cost : {PyFloat(1), PyStr("1")},
     action : {PyStr("BUY"), PyStr("SELL"), PyStr("LONG"), PyStr("SHORT"),
               PyStr("COVER"), PyStr("long"), PyStr("HOLD"), PyInt(1)},
     fees : {PyFloat(1), PyNone}]

\* Positions that were constructed, two values for every field.
Positions ==
    [action : {PyStr("BUY"), PyStr("SELL")},
     avg_cost : {PyFloat(1), PyFloat(2)},
     quantity : {PyInt(1), PyInt(2)},
     total_cost : {PyFloat(1), PyFloat(2)},
     market_value : {PyFloat(1), PyFloat(2)},
     quantity_multiplier : {PyInt(1), PyInt(2)},
     price_multiplier : {PyInt(1), PyFloat(2)},
     initial_margin : {PyFloat(0), PyFloat(1)}]

\* One call of a constructor or of ==, not yet made.
InitStructs ==
    /\ OrderManagerConstructed
    /\ BusIdle
    /\ struct_out = "pending"
    /\ \/ \E args \in PositionArgs :
            struct_in = [call |-> "Position", args |-> args]
       \/ \E args \in TradeArgs :
            struct_in = [call |-> "Trade", args |-> args]
       \/ \E self \in Positions, fields \in Positions,
             class \in {"Position", "dict"} :
            struct_in = [call |-> "eq", self |-> self,
                         other |-> [class |-> class, fields |-> fields]]

\* Position(**args)
ConstructPosition ==
    /\ struct_in.call = "Position"
    /\ struct_out = "pending"
    /\ struct_out' = PositionPostInit(struct_in.args)
    /\ UNCHANGED <<struct_in, busVars, coreVars, mainVars>>

\* Trade(**args)
ConstructTrade ==
    /\ struct_in.call = "Trade"
    /\ struct_out = "pending"
    /\ struct_out' = TradePostInit(struct_in.args)
    /\ UNCHANGED <<struct_in, busVars, coreVars, mainVars>>

\* self == other
ComparePositions ==
    /\ struct_in.call = "eq"
    /\ struct_out = "pending"
    /\ struct_out' = IF PositionEq(struct_in.self, struct_in.other)
                     THEN "True" ELSE "False"
    /\ UNCHANGED <<struct_in, busVars, coreVars, mainVars>>

NextStructs ==
    \/ ConstructPosition
    \/ ConstructTrade
    \/ ComparePositions

SpecStructs == InitStructs /\ [][NextStructs]_vars

\* ------------------------------------------------------------- claims
\* The ORDER events and the rejection notifications published for event.
Orders == SelectSeq(bus_log, LAMBDA m : m.kind = "ORDER")
Rejects == SelectSeq(bus_log, LAMBDA m : m.kind = "UPDATE_SYSTEM")
IsSignal == event.kind = "SignalEvent"
Legs == event.instructions
\* handle_event has returned normally for event.
Returned == handled > 0 /\ pc \in {"loop", "get", "cleanup", "done"}
EntryActions == {"LONG", "SHORT", "BUY"}
\* The cost of leg j at the price its lookup returned.
LegCost(j) == Legs[j].quantity * lookups[j] * Multiplier(Legs[j].instrument)
\* The sum of the costs of the non-exit legs among the first k legs.
RECURSIVE RequiredCapital(_)
RequiredCapital(k) ==
    IF k = 0 THEN 0
    ELSE RequiredCapital(k - 1)
         + (IF Legs[k].action \in EntryActions THEN LegCost(k) ELSE 0)
SomeLookupFailed == \E j \in 1..Len(lookups) : lookups[j] = NoPrice
\* The order the engine is to build for leg j of event.
ExpectedOrder(j) ==
    [timestamp |-> event.timestamp, trade_id |-> Legs[j].trade_id,
     leg_id |-> Legs[j].leg_id, action |-> Legs[j].action,
     contract |-> Legs[j].instrument, quantity |-> Legs[j].quantity]

\* C1: whenever ORDER events have been published for a signal, the sum of the
\* costs of its non-exit legs was <= the capital read at the admission
\* comparison (line 162).
C1_NoFalseAdmission ==
    (IsSignal /\ Orders /= <<>>) =>
        /\ capital_read /= <<>>
        /\ RequiredCapital(Len(Legs)) <= capital_read[1]
\* An admitted signal that needed capital, whose capital has dropped below
\* its requirement since the comparison.
C1_Witness ==
    /\ IsSignal /\ Orders /= <<>>
    /\ RequiredCapital(Len(Legs)) > 0
    /\ capital < RequiredCapital(Len(Legs))

\* C2: a signal with a leg whose instrument is in the active-order tickers
\* read by handle_event gets zero ORDER events and exactly one
\* UPDATE_SYSTEM False, whatever its other legs, the prices and the capital.
C2_ConflictRejection ==
    (IsSignal /\ pc /= "handle"
       /\ \E j \in 1..Len(Legs) : Legs[j].instrument \in active_orders_tickers)
    => bus_log = <<RejectMsg>>
\* Only the second leg conflicts; both legs are priced and capital suffices.
C2_Witness ==
    /\ IsSignal /\ Returned /\ Len(Legs) = 2
    /\ Legs[1].instrument \in KnownSymbols \ active_orders_tickers
    /\ Legs[2].instrument \in active_orders_tickers
    /\ \A s \in KnownSymbols : order_book[s] /= NoPrice
    /\ capital = MaxCapital
    /\ bus_log = <<RejectMsg>>

\* C3: once the engine is no longer emitting for a signal of n legs, the
\* number of ORDER events published for it is 0 or n, also when _set_order
\* failed for a later leg.
C3_AllOrNothing ==
    (IsSignal /\ pc /= "emit") => Len(Orders) \in {0, Len(Legs)}

\* C4: if the Order Book had no price for some leg of a signal, no ORDER
\* event is published for that signal, the legs before it included.
C4_MissingPriceAborts ==
    (IsSignal /\ SomeLookupFailed) => Orders = <<>>
\* The first leg was priced and costed, the second was not priced.
C4_Witness ==
    /\ IsSignal /\ Len(Legs) = 2 /\ Len(lookups) = 2
    /\ lookups[1] /= NoPrice /\ lookups[2] = NoPrice
    /\ Len(orders) = 1
    /\ Orders = <<>>

\* C5: total_capital_required is the sum of the order costs of exactly the
\* LONG, SHORT and BUY legs costed so far; SELL and COVER legs add 0.
C5_ExitLegsExcluded ==
    IsSignal => total_capital_required = RequiredCapital(Len(orders))
\* A BUY leg and a SELL leg, admitted with capital equal to the BUY leg's cost.
C5_Witness ==
    /\ IsSignal /\ pc = "emit" /\ Len(Legs) = 2
    /\ Legs[1].action = "BUY" /\ Legs[2].action = "SELL"
    /\ total_capital_required = LegCost(1)
    /\ capital_read = <<LegCost(1)>>

\* C6: a signal that reached the admission comparison (no conflict, all legs
\* priced) is admitted exactly when its required capital is <= the capital
\* read, equality included: no rejection notification, and one ORDER event
\* per leg once handle_event has returned; otherwise it gets zero ORDER
\* events and exactly one UPDATE_SYSTEM False.
C6_AdmissionDecision ==
    (IsSignal /\ capital_read /= <<>>) =>
        IF RequiredCapital(Len(Legs)) <= capital_read[1]
        THEN /\ Rejects = <<>>
             /\ pc \in {"emit", "crashed"} \/ Len(Orders) = Len(Legs)
        ELSE bus_log = <<RejectMsg>>
\* The boundary: required capital equals the capital read, and both orders
\* are out.
C6_Witness ==
    /\ IsSignal /\ Returned /\ Len(Legs) = 2
    /\ Len(Orders) = 2 /\ Rejects = <<>>
    /\ RequiredCapital(2) > 0
    /\ capital_read = <<RequiredCapital(2)>>

\* C7: the i-th ORDER event published for a signal carries the signal's
\* timestamp and the trade id, leg id and action of its i-th leg, and an
\* admitted signal's ORDER events are all out, in leg order, when
\* handle_event has returned.
C7_EmissionOrder ==
    IsSignal =>
        /\ Len(Orders) <= Len(Legs)
        /\ \A i \in 1..Len(Orders) : Orders[i].payload = ExpectedOrder(i)
        /\ (Returned /\ capital_read /= <<>> /\ Rejects = <<>>)
               => Len(Orders) = Len(Legs)
\* Two legs that differ in instrument and action, both emitted.
C7_Witness ==
    /\ IsSignal /\ Returned /\ Len(Orders) = 2
    /\ Legs[1].instrument /= Legs[2].instrument
    /\ Legs[1].action /= Legs[2].action

\* C8: a failed price lookup ends in the rejection notification and leaves
\* the worker running.
C8_LookupFailureRejects ==
    (IsSignal /\ SomeLookupFailed) => (bus_log = <<RejectMsg>> /\ pc /= "crashed")

\* C9: a failure while handling one signal (unknown symbol, missing price,
\* error building an order) leaves the worker alive.
C9_FailureContained ==
    error \in {"KeyError", "NotFound", "RuntimeError"} => pc /= "crashed"

\* C10: an item that is no SignalEvent is given up with a TypeError and
\* nothing is published for it.
C10_MalformedPayloadTypeError ==
    (event = BadPayload /\ pc /= "handle") => (error = "TypeError" /\ bus_log = <<>>)

\* A step of the process worker, in any of its positions.
WorkerNext ==
    \/ Start
    \/ LoopCheck
    \/ Get
    \/ HandleEvent
    \/ CostLeg
    \/ Decide
    \/ SetOrder
    \/ Cleanup

\* C11: no step of the Order Execution Engine's worker (admission,
\* rejection or failure) changes the Portfolio State's available capital or
\* its active-order set.
C11_ReadOnlyFeasibility ==
    [][(workerVars' /= workerVars) =>
           (capital' = capital /\ active_orders' = active_orders)]_vars

\* A signal with a positive required capital was admitted and emitted, and
\* the capital is still the one the comparison read.
C11_Witness ==
    /\ Returned /\ IsSignal
    /\ Len(Orders) = Len(Legs)
    /\ total_capital_required > 0
    /\ capital_read = <<capital>>
    /\ capital >= total_capital_required

\* C14: once shutdown_event is set, a worker that has not terminated can
\* take its next step without any further SIGNAL event being published.
C14_ShutdownObserved ==
    (shutdown_event /\ pc \notin {"done", "crashed"}) => ENABLED WorkerNext

\* C15: a worker that has terminated, by shutdown or by an error raised
\* while handling a signal, has run cleanup exactly once.
C15_CleanupExactlyOnce ==
    pc \in {"done", "crashed"} => cleanups = 1

\* The orders on instrument s that are outstanding.
OutstandingOn(s) ==
    Cardinality({i \in 1..Len(outstanding) : outstanding[i].contract = s})

\* C12: for every instrument, at most one order emitted by the engine is
\* outstanding (ORDER published and not yet terminal) at any time.
C12_NoOverlapWhileOutstanding ==
    \A s \in KnownSymbols : OutstandingOn(s) <= 1

\* Every order published so far has had its fill applied, and the worker
\* is not in the middle of emitting a signal's orders.
AllFillsApplied == outstanding = <<>> /\ pc /= "emit"

C16_ReadinessBeforeBlocking ==
    /\ pc = "get" => running
    /\ \A i \in SubLoops : sub_pc[i] = "get" => ad_running["performance_manager"]

\* C17: in registration order, the worker of the (k+1)-th adapter is
\* started only after the k-th adapter has set running.
C17_StartupOrdering ==
    \A k \in 1..(Len(AdapterOrder) - 1) :
        Started(AdapterOrder[k + 1]) => Running(AdapterOrder[k])

\* The Performance Collector's worker was started, the order manager,
\* registered before it, is running.
C17_Witness ==
    /\ Started("performance_manager")
    /\ Running("order_manager")
    /\ Running("order_book") /\ Running("portfolio_server")

\* C18: start() eventually has started all five workers and set the
\* engine's running signal.
C18_StartupCompletes ==
    <>(engine_running /\ \A a \in Adapters : Started(a))

\* C19: completion is signalled only after every adapter worker has
\* terminated, and neither the monitor nor a caller of
\* wait_until_complete fails on the completion signal.
C19_CompletionMonitoring ==
    /\ completed = "set" => \A a \in Adapters : Terminated(a)
    /\ wait_pc = "returned" => completed = "set"
    /\ monitor_pc /= "AttributeError"
    /\ wait_pc /= "AttributeError"

\* The position of step x in what stop() has done, 0 when not done.
StopPosition(x) ==
    IF \E i \in 1..Len(stop_log) : stop_log[i] = x
    THEN CHOOSE i \in 1..Len(stop_log) : stop_log[i] = x
    ELSE 0

\* C20: within stop(), shutdown_event is set on an adapter only after the
\* Performance Collector's save() has completed, and when stop() has
\* returned normally shutdown_event is set on all five adapters.
C20_OrderedShutdown ==
    /\ \A a \in Adapters :
          ShutdownSet(a) => (0 < StopPosition("save")
                             /\ StopPosition("save") < StopPosition(a))
    /\ stop_pc = "returned" => \A a \in Adapters : ShutdownSet(a)

\* stop() has returned normally: one save, then five shutdown events.
C20_Witness ==
    /\ stop_pc = "returned"
    /\ saves >= 1
    /\ \A a \in Adapters : ShutdownSet(a)

\* A step of the Performance Collector: its process or one of its threads.
PMNext ==
    \/ PMProcess
    \/ PMSubLoop

\* C21: at the step in which stop() completes the save of a Performance
\* Collector whose four consumer threads are running, no event published to
\* the collector's queues is still waiting there unapplied.
C21_SaveObservesQueued ==
    [][(/\ stop_log' /= stop_log
        /\ stop_log'[Len(stop_log')] = "save"
        /\ pm_pc = "join") =>
           \A i \in SubLoops : pm_queue[i] = 0]_vars

C23_SaveExactlyOnce ==
    (stop_pc = "returned" /\ pm_pc = "done") => saves = 1

\* C24: once shutdown_event is set on the Performance Collector, a
\* collector that has been started and has not terminated can take its
\* next step without any further event being published.
C24_CollectorShutdownObserved ==
    (ad_shutdown["performance_manager"] /\ pm_pc \in {"start", "join", "cleanup"})
        => ENABLED PMNext

\* C25: the item being handled is the handled-th one published (signals
\* are dequeued in the order of their publication), every ORDER published
\* for it carries its timestamp, and the ORDER events of an earlier signal
\* precede those of a later one.
C25_PerSubscriberFifo ==
    /\ IsSignal => event.timestamp = 100 + handled
    /\ \A i \in 1..Len(Orders) : Orders[i].payload.timestamp = event.timestamp
    /\ \A i, j \in 1..Len(outstanding) :
          i < j => outstanding[i].timestamp <= outstanding[j].timestamp

\* Two signals were published one after the other and both were admitted:
\* the ORDER of the first precedes the ORDER of the second.
C25_Witness ==
    /\ handled = 2 /\ Returned
    /\ \E i, j \in 1..Len(outstanding) :
          i < j /\ outstanding[i].timestamp < outstanding[j].timestamp

\* C27: a step that applies the terminal fill of an order on instrument s
\* leaves s outside the active-order instrument set.
C27_FillRoundTrip ==
    [][\A s \in KnownSymbols :
          (OutstandingOn(s)' < OutstandingOn(s)) => s \notin active_orders']_vars

\* C26: for every subscriber of the kind, what it has consumed followed by
\* what waits in its queue is exactly the payloads published since it
\* subscribed, each once and in order, whatever the other subscribers
\* have consumed.
C26_FanOut ==
    \A sub \in DOMAIN bus_queues :
        bus_consumed[sub] \o bus_queues[sub] =
            SubSeq(bus_published, bus_joined[sub] + 1, Len(bus_published))

\* Both subscribers were subscribed when a payload was published; one has
\* consumed it and it still waits in the other's queue.
C26_Witness ==
    /\ DOMAIN bus_queues = Subscribers
    /\ \E a, b \in Subscribers :
          /\ a /= b
          /\ bus_consumed[a] /= <<>>
          /\ bus_queues[b] /= <<>>
          /\ bus_consumed[a][Len(bus_consumed[a])] = Head(bus_queues[b])

\* C28: a Position that was constructed has action BUY or SELL, both
\* multipliers > 0 and initial_margin >= 0; and with fields of the declared
\* types, a multiplier <= 0, an initial_margin < 0 or another action gives
\* ValueError and no Position.
C28_PositionConstruction ==
    (struct_in.call = "Position" /\ struct_out /= "pending") =>
        LET p == struct_in.args IN
        /\ struct_out = "Position" =>
              /\ p.action \in {PyStr("BUY"), PyStr("SELL")}
              /\ Greater(p.quantity_multiplier, 0)
              /\ Greater(p.price_multiplier, 0)
              /\ GreaterEq(p.initial_margin, 0)
        /\ (/\ ~PositionTypeError(p)
            /\ \/ p.action \notin {PyStr("BUY"), PyStr("SELL")}
               \/ LessEq(p.quantity_multiplier, 0)
               \/ LessEq(p.price_multiplier, 0)
               \/ Less(p.initial_margin, 0)) => struct_out = "ValueError"

\* C29: self == other is True exactly when other is a Position and side,
\* average cost, quantity, both multipliers, total cost, market value and
\* initial margin are all equal.
C29_PositionEquality ==
    (struct_in.call = "eq" /\ struct_out /= "pending") =>
        LET self == struct_in.self
            other == struct_in.other
        IN struct_out = "True" <=>
              /\ other.class = "Position"
              /\ PyEq(self.action, other.fields.action)
              /\ PyEq(self.avg_cost, other.fields.avg_cost)
              /\ PyEq(self.quantity, other.fields.quantity)
              /\ PyEq(self.quantity_multiplier, other.fields.quantity_multiplier)
              /\ PyEq(self.price_multiplier, other.fields.price_multiplier)
              /\ PyEq(self.total_cost, other.fields.total_cost)
              /\ PyEq(self.market_value, other.fields.market_value)
              /\ PyEq(self.initial_margin, other.fields.initial_margin)

C31_IntFields == {"timestamp", "trade_id", "leg_id", "instrument"}
C31_NumberFields == {"quantity", "avg_price", "trade_value", "trade_cost", "fees"}
C31_WrongType(trade, field) ==
    IF field \in C31_IntFields THEN trade[field].t /= "int"
    ELSE IF field \in C31_NumberFields THEN trade[field].t \notin {"int", "float"}
    ELSE trade[field].t /= "str"
C31_OnlyWrong(trade, field) ==
    /\ C31_WrongType(trade, field)
    /\ \A other \in DOMAIN trade \ {field} : ~C31_WrongType(trade, other)
C31_TradeTypeValidation ==
    (struct_in.call = "Trade" /\ struct_out /= "pending") =>
        \A field \in DOMAIN struct_in.args :
            C31_OnlyWrong(struct_in.args, field) =>
                struct_out = TradeTypeErrorMessage[field]

\* Only trade_id has the wrong type, action "long" also breaks the value
\* constraint, and the call gave the TypeError of trade_id.
C31_Witness ==
    /\ struct_in.call = "Trade"
    /\ C31_OnlyWrong(struct_in.args, "trade_id")
    /\ struct_in.args.action = PyStr("long")
    /\ struct_out = TradeTypeErrorMessage["trade_id"]

\* C32: whenever the worker publishes an ORDER event for instrument X, X is
\* not in the Portfolio State's active-order set at that moment, whatever
\* the other thread has recorded since handle_event read the set.
C32_NoEmissionOntoActive ==
    [][(/\ Len(bus_log') > Len(bus_log)
        /\ bus_log'[Len(bus_log')].kind = "ORDER") =>
           bus_log'[Len(bus_log')].payload.contract \notin active_orders]_vars

\* C37: when the collector's save raises inside stop, stop ends with the
\* exception and has set shutdown_event on no adapter: every shutdown flag
\* is as it was before the call.
C37_StopOnSaveFailure ==
    stop_pc = "raised" =>
        /\ stop_log = <<>>
        /\ ~shutdown_event
        /\ \A a \in DOMAIN ad_shutdown : ~ad_shutdown[a]

\* stop was called after the adapters were started, and save raised.
C37_Witness ==
    /\ stop_pc = "raised"
    /\ saves = 0
    /\ \E a \in DOMAIN ad_running : ad_running[a]

\* C35: once shutdown_event is set it stays set, the worker dequeues a
\* signal only if it was already waiting at get, and after that dequeue, or
\* from any other position, it never comes to get again: at most one
\* further signal is handled, and what is still queued stays queued.
C35_BoundedWorkAfterShutdown ==
    [][shutdown_event =>
          /\ shutdown_event'
          /\ pc /= "get" => (handled' = handled /\ pc' /= "get")
          /\ handled' /= handled => (handled' = handled + 1 /\ pc' /= "get")
          /\ pc \in {"done", "crashed"} =>
                Len(signal_queue') >= Len(signal_queue)]_vars

\* The loop has exited on shutdown_event after handling one signal, and a
\* signal is still in the queue.
C35_Witness ==
    /\ shutdown_event
    /\ pc = "done"
    /\ handled = 1
    /\ signal_queue /= <<>>

\* A signal whose legs are all SELL or COVER.
ExitOnly == IsSignal /\ \A j \in 1..Len(Legs) : Legs[j].action \in {"SELL", "COVER"}

\* C36: an exit-only signal that reached the admission comparison (no
\* conflict, all legs priced) requires capital 0 and is admitted exactly
\* when the capital read is >= 0; with negative capital it gets one
\* UPDATE_SYSTEM False and no ORDER event.
C36_ExitOnlySignals ==
    (ExitOnly /\ capital_read /= <<>>) =>
        /\ total_capital_required = 0
        /\ IF capital_read[1] >= 0
           THEN /\ Rejects = <<>>
                /\ pc \in {"emit", "crashed"} \/ Len(Orders) = Len(Legs)
           ELSE /\ bus_log = <<RejectMsg>>
                /\ Orders = <<>>

\* An exit-only signal was handled while available capital was negative and
\* was rejected.
C36_Witness ==
    /\ ExitOnly /\ Returned
    /\ capital_read /= <<>>
    /\ capital_read[1] < 0
    /\ bus_log = <<RejectMsg>>

\* C38: with every SIGNAL event published before process starts, the queue
\* is consumed in publish order, and as long as shutdown is not requested a
\* signal still in the queue once process runs is not lost: the worker can
\* take its next step towards handling it.
C38_NoSignalLostBeforeStart ==
    /\ IsSignal => event.timestamp = 100 + handled
    /\ (pc /= "start" /\ ~shutdown_event /\ signal_queue /= <<>>) =>
           ENABLED WorkerNext

\* C33: in backtest mode execution_engine.stop() is called only after
\* data_engine.wait_until_complete() has returned, core_engine.stop() (and
\* with it the save of the performance results) only after
\* execution_engine.stop() has returned, and core_engine.stop() is called at
\* most once, exactly once when _backtest_loop has returned.
C33_BacktestShutdownOrdering ==
    mode = "BACKTEST" =>
        /\ (Logged("execution_engine.stop returned")
              \/ Logged("execution_engine.stop raised")) =>
               Logged("data_engine.wait_until_complete returned")
        /\ Logged("core_engine.stop called") =>
               /\ Logged("execution_engine.stop returned")
               /\ LoggedAt("data_engine.wait_until_complete returned")
                     < LoggedAt("execution_engine.stop returned")
               /\ LoggedAt("execution_engine.stop returned")
                     < LoggedAt("core_engine.stop called")
        /\ (stop_log /= <<>> \/ saves > 0 \/ stop_pc /= "uncalled") =>
               Logged("core_engine.stop called")
        /\ Times("core_engine.stop called") <= 1
        /\ main_pc = "done" => Times("core_engine.stop called") = 1

\* The backtest loop has returned: the data engine completed, the execution
\* engine was stopped, core_engine.stop() saved and set every shutdown flag.
C33_Witness ==
    /\ mode = "BACKTEST"
    /\ main_pc = "done"
    /\ stop_pc = "returned"
    /\ Logged("core_engine.stop returned")

\* C34: in live mode, once the SIGINT handler has run and Engine.start's
\* thread has ended, the cleanup sequence has run to its end: the
\* performance save step was executed.
C34_LiveShutdown ==
    (/\ mode = "LIVE"
     /\ main_running = "False"
     /\ main_pc \in {"done", "raised"}) =>
        Logged("performance_manager.save")

====
